---- MODULE Spec2Model ----
(***************************************************************************)
(* WebAuthn example backend: the challenge lifecycle and the ceremony      *)
(* handlers of AuthService, in its two versions (challenges in a Redis     *)
(* keyspace with a TTL, and challenges in an in-process Map with a         *)
(* periodic sweep).                                                        *)
(*                                                                         *)
(* Every handler is an async function: it is cut into one atomic step per  *)
(* awaited effect on shared state (a repository read, a Redis command, a   *)
(* repository write).  Synchronous code between two awaits belongs to the  *)
(* step of the effect it follows or prepares, whichever shared state it    *)
(* touches.  The signature verifier reads no shared state, so its call is  *)
(* part of the step of the write it decides.                               *)
(*                                                                         *)
(* Time is in milliseconds and advances by Quantum.                        *)
(***************************************************************************)
EXTENDS Integers, Sequences, FiniteSets, TLC

VARIABLES
    version,      \* which AuthService is wired in: "redis" or "memory"
    users,        \* rows of table "users": [id, email]
    credentials,  \* rows of table "credentials": [id, credentialId, userId, counter]
    credSeq,      \* number of credential rows ever inserted (the next uuid)
    redis,        \* Redis keyspace: key -> [challenge, ttl], ttl as TTL reports it
    challenges,   \* in-memory Map: key -> [challenge, timestamp]
    clock,        \* Date.now(), counted from the last time the cleanup interval fired
    minted,       \* number of challenges ever generated (the next random value)
    strict,       \* TRUE when the linked verifier rejects a counter that did not grow
    proc,         \* the requests in flight: position, arguments, locals
    out,          \* the response of the call that returned in the last step
    accepted,     \* history: accepted[c], ceremonies verified against challenge c
    age,          \* history: time since the store of the record a Redis key holds
    seq,          \* TRUE in the runs whose calls do not overlap
    issued,       \* history (kept when seq): issued[c], the key challenge c was stored under
    offered,      \* history (kept when seq): offered[c], the credential ids listed in the options of challenge c
    taken,        \* history (kept when seq): challenges a completion call has read
    done,         \* history (kept when seq): the call that returned in the last step
    last,         \* history (kept when seq): the call before, if it reached the verifier
    page,         \* the Login page: React state, localStorage, location, requests in flight
    client        \* the Redis client: reconnection attempts since it was last connected, and their delays

vars == <<version, users, credentials, credSeq, redis, challenges, clock, minted,
          strict, proc, out, accepted, age, seq, issued, taken, done, last,
          offered, page, client>>

(***************************************************************************)
(* Bounds of the model.                                                    *)
(***************************************************************************)
MaxCredentials == 2     \* credential rows ever inserted
MaxChallenges == 2      \* challenges ever minted
MaxCounter == 2         \* largest signature counter an authenticator reports
Resolution == 2         \* clock quanta per expiry period
MaxAttempts == 120      \* reconnection attempts in a row

Procs == {"p1", "p2"}
UserIds == {"u1", "u2"}
Emails == {"e1", "e2"}
UnknownUserId == "u0"
CredentialIds == {"kA", "kB"}

(***************************************************************************)
(* Program constants.                                                      *)
(***************************************************************************)
challengeTTL == 300         \* seconds (Redis version)
expirationTime == 300000    \* milliseconds (in-memory version)
cleanupInterval == 300000   \* milliseconds, the period of setInterval

Quantum == expirationTime \div Resolution

(***************************************************************************)
(* Values.                                                                 *)
(***************************************************************************)
NoChallenge == 0
NoRecord == [challenge |-> NoChallenge, ttl |-> 0]
NoEntry == [challenge |-> NoChallenge, timestamp |-> 0]
NoCredential ==
    [id |-> 0, credentialId |-> "none", publicKey |-> "none", userId |-> "none",
     counter |-> 0, deviceType |-> "none"]
NoResponse == [id |-> "none", challenge |-> NoChallenge, valid |-> FALSE, deviceType |-> ""]
NoKey == <<"none", "none">>
NoAge == 0 - 1
NoOut == [op |-> "none", result |-> "none", profile |-> "none"]
NoCall == [op |-> "none", subj |-> "none", id |-> "none", result |-> "none"]
NoOptions == [challenge |-> NoChallenge, credentialIds |-> {}]
NoDone == [op |-> "none", subj |-> "none", resp |-> NoResponse,
           expected |-> NoChallenge, result |-> "none", retry |-> "none",
           options |-> NoOptions]

\* a request of the Login page: not made ("none"), waiting for the
\* authenticator ("prompt"), sent, or served with its response on the way back
NoRequest ==
    [status |-> "none", email |-> "", options |-> NoOptions,
     response |-> NoResponse, result |-> "none"]

\* useState(...) of Login, an empty localStorage, the route of the page, no
\* request made; rejectedAt: the number of challenges the server had generated
\* when it last rejected a verifyLogin; optionsEmail: the email passkeyOptions
\* were requested for
InitialPage ==
    [email |-> "", password |-> "", error |-> "", step |-> "email",
     loading |-> FALSE, generatingOptions |-> FALSE, authenticating |-> FALSE,
     passkeyOptions |-> NoOptions, optionsEmail |-> "",
     userId |-> "none", location |-> "/login",
     login |-> NoRequest, options |-> NoRequest, passkey |-> NoRequest,
     rejectedAt |-> 0]

\* A signed response as the handlers see it: the credential it names, the
\* challenge it was signed over (0: a value this server never issued) and
\* whether signature, origin and RP id are those of that credential.  All
\* invalid responses naming one credential behave alike, so one stands for them.
Responses ==
    { r \in [id : CredentialIds, challenge : 0..MaxChallenges, valid : BOOLEAN,
              deviceType : {""}] :
        /\ ~r.valid => r.challenge = NoChallenge
        /\ r.challenge <= minted }

\* the body of POST webauthn/register/verify: the response and the device
\* type, absent or empty (""), or a label
Attestations == { [r EXCEPT !.deviceType = d] : r \in Responses, d \in {"", "iOS"} }

\* `${type}-${userId}`, `auth-email-${email}`: user ids are uuids, so the three
\* families of keys are disjoint
ChallengeKey(type, subject) == <<type, subject>>

Keys == ({"reg", "auth"} \X UserIds) \cup ({"auth-email"} \X Emails)

IdleProc ==
    [pc |-> "idle", op |-> "none", subj |-> "none", resp |-> NoResponse,
     user |-> "none", cred |-> NoCredential, expected |-> NoChallenge]

(***************************************************************************)
(* Repositories (TypeORM).                                                 *)
(***************************************************************************)
\* a variant that finds a user whatever the id
findUserById_anyone(userId) == users

findUserById(userId) == { u \in users : u.id = userId }
findUserByEmail(email) == { u \in users : u.email = email }

\* a variant that loads every credential, whoever owns it
userCredentials_ofAnyone(userId) == credentials

\* relations: ["credentials"]
userCredentials(userId) == { c \in credentials : c.userId = userId }

\* user.credentials.find((c) => c.credentialId === credentialId)
findCredential(creds, credentialId) == { c \in creds : c.credentialId = credentialId }

\* a variant that looks the row up by its id alone
findCredentialRow_anyOwner(rowId, userId) == { c \in credentials : c.id = rowId }

\* credentialRepository.findOne({ where: { id, userId } })
findCredentialRow(rowId, userId) ==
    { c \in credentials : c.id = rowId /\ c.userId = userId }

\* credentialRepository.save(entity): the row with the entity's id is replaced
\* when it exists and inserted when it does not.
saveCredential(entity) ==
    { c \in credentials : c.id # entity.id } \cup {entity}

\* credentialRepository.remove(entity)
removeCredential(entity) == { c \in credentials : c.id # entity.id }

(***************************************************************************)
(* RedisService.                                                           *)
(***************************************************************************)
\* a variant that leaves the record a key already holds (SET ... NX)
setChallenge_keepsFirst(key, challenge, ttlSeconds) ==
    IF redis[key] # NoRecord THEN redis
    ELSE [redis EXCEPT ![key] = [challenge |-> challenge, ttl |-> ttlSeconds * 1000]]

\* a variant that takes the time to live for minutes
setChallenge_minutes(key, challenge, ttlSeconds) ==
    [redis EXCEPT ![key] = [challenge |-> challenge, ttl |-> ttlSeconds * 60 * 1000]]

\* SETEX key ttlSeconds challenge
setChallenge(key, challenge, ttlSeconds) ==
    [redis EXCEPT ![key] = [challenge |-> challenge, ttl |-> ttlSeconds * 1000]]

\* GET key: null (0) when the key is absent or expired
getChallenge(key) ==
    IF redis[key].ttl > 0 THEN redis[key].challenge ELSE NoChallenge

\* a variant that deletes every key
deleteChallenge_all(key) == [k \in Keys |-> NoRecord]

\* a variant that deletes nothing
deleteChallenge_nothing(key) == redis

\* DEL key
deleteChallenge(key) == [redis EXCEPT ![key] = NoRecord]

\* a variant in which no key expires (PERSIST)
expireKeys_never(elapsed) == redis

\* Redis after `elapsed` milliseconds: a key is dropped once its time to live is used up
expireKeys(elapsed) ==
    [k \in Keys |-> IF redis[k].ttl > elapsed
                    THEN [redis[k] EXCEPT !.ttl = redis[k].ttl - elapsed]
                    ELSE NoRecord]

(***************************************************************************)
(* The signature verifier (@simplewebauthn/server) as the handlers call    *)
(* it: it is handed the response, the expected challenge and, for an       *)
(* authentication, the stored credential with its counter; it accepts a    *)
(* response only against the challenge it is handed, and reports the       *)
(* credential id and the signature counter.  The counter it reports is any *)
(* value, or, when strict, any value greater than the one handed in.  The  *)
(* result is the set of outcomes the call may have.                        *)
(***************************************************************************)
reportedCounters(storedCounter) ==
    IF strict THEN { n \in 0..MaxCounter : n > storedCounter } ELSE 0..MaxCounter

\* a variant that is not handed the expected challenge
verifyRegistrationResponse_anyChallenge(response, expectedChallenge) ==
    IF response.valid
    THEN { [verified |-> TRUE, credentialID |-> response.id,
            credentialPublicKey |-> response.id, counter |-> n] :
             n \in 0..MaxCounter }
    ELSE { [verified |-> FALSE, credentialID |-> "none",
            credentialPublicKey |-> "none", counter |-> 0] }

verifyRegistrationResponse(response, expectedChallenge) ==
    IF response.valid /\ response.challenge = expectedChallenge
    THEN { [verified |-> TRUE, credentialID |-> response.id,
            credentialPublicKey |-> response.id, counter |-> n] :
             n \in 0..MaxCounter }
    ELSE { [verified |-> FALSE, credentialID |-> "none",
            credentialPublicKey |-> "none", counter |-> 0] }

verifyAuthenticationResponse(response, expectedChallenge, authenticator) ==
    IF /\ response.valid
       /\ response.challenge = expectedChallenge
       /\ response.id = authenticator.credentialId
       /\ reportedCounters(authenticator.counter) # {}
    THEN { [verified |-> TRUE, newCounter |-> n] :
             n \in reportedCounters(authenticator.counter) }
    ELSE { [verified |-> FALSE, newCounter |-> 0] }

(***************************************************************************)
(* Requests and what is recorded of them.                                  *)
(***************************************************************************)
Wiring == <<version, strict, seq>>
Tables == <<users, credentials, credSeq>>
Keyspace == <<redis, age>>
Memory == <<challenges, clock>>
History == <<accepted, issued, taken, offered>>

At(p, op, pc) == proc[p].pc = pc /\ proc[p].op = op

\* the outcome of the preceding call when this call repeats it: the same
\* operation for the same subject with a response naming the same credential
Retry(op, subj, id) ==
    IF last.op = op /\ last.subj = subj /\ last.id = id THEN last.result ELSE "none"

BeginOps == {"generateRegistrationOptions", "generateAuthenticationOptions",
             "generateAuthenticationOptionsByEmail"}

\* the options a begin returns: those generated with the next random challenge
\* and, as excludeCredentials or allowCredentials, user.credentials.map(...)
\* of the user the call loaded
returnedOptions(op, subj) ==
    [challenge |-> minted + 1,
     credentialIds |->
        { c.credentialId :
            c \in UNION { userCredentials(u.id) :
                            u \in IF op = "generateAuthenticationOptionsByEmail"
                                  THEN findUserByEmail(subj)
                                  ELSE findUserById(subj) } }]

\* what is remembered of a call that returns
Done(op, subj, resp, expected, result) ==
    IF seq
    THEN [op |-> op, subj |-> subj, resp |-> resp, expected |-> expected,
          result |-> result, retry |-> Retry(op, subj, resp.id),
          options |-> IF op \in BeginOps /\ result = "ok"
                      THEN returnedOptions(op, subj) ELSE NoOptions]
    ELSE NoDone

Last(op, subj, resp, result) ==
    IF seq /\ result \in {"ok", "VerificationFailed"} /\ resp # NoResponse
    THEN [op |-> op, subj |-> subj, id |-> resp.id, result |-> result]
    ELSE NoCall

\* the call of p returns or throws at its first step, where it has read no
\* more of the response than the credential it names
Rejected(p, op, subj, resp, result) ==
    /\ proc' = proc
    /\ out' = [op |-> op, result |-> result, profile |-> "none"]
    /\ done' = Done(op, subj, [NoResponse EXCEPT !.id = resp.id], NoChallenge, result)
    /\ last' = NoCall
    /\ UNCHANGED <<page, client>>

\* the call of p passes its first step
Entered(p, op, subj, resp, userId, cred, pc) ==
    /\ proc' = [proc EXCEPT ![p] = [pc |-> pc, op |-> op, subj |-> subj,
                                    resp |-> resp, user |-> userId, cred |-> cred,
                                    expected |-> NoChallenge]]
    /\ out' = NoOut
    /\ done' = NoDone
    /\ last' = last
    /\ UNCHANGED <<page, client>>

\* the call of p moves to its next await
Continued(p, pc, expected) ==
    /\ proc' = [proc EXCEPT ![p].pc = pc, ![p].expected = expected]
    /\ out' = NoOut
    /\ done' = NoDone
    /\ last' = last
    /\ UNCHANGED <<page, client>>

\* the call of p returns or throws after its first step
Finished(p, result, profile) ==
    /\ proc' = [proc EXCEPT ![p] = IdleProc]
    /\ out' = [op |-> proc[p].op, result |-> result, profile |-> profile]
    /\ done' = Done(proc[p].op, proc[p].subj, proc[p].resp, proc[p].expected, result)
    /\ last' = Last(proc[p].op, proc[p].subj, proc[p].resp, result)
    /\ UNCHANGED <<page, client>>

\* no call returns in this step
Idle ==
    /\ out' = NoOut
    /\ done' = NoDone
    /\ UNCHANGED <<proc, last, page, client>>

\* room left under the bounds for one more call that mints a challenge or
\* inserts a credential row
InFlight(ops) == Cardinality({ q \in Procs : proc[q].pc # "idle" /\ proc[q].op \in ops })
CanMint == minted + InFlight(BeginOps) < MaxChallenges
CanInsert == credSeq + InFlight({"verifyRegistration"}) < MaxCredentials

(***************************************************************************)
(* AuthService: the first step of each handler, the same in both versions. *)
(***************************************************************************)
generateRegistrationOptions(p, userId) ==
    /\ proc[p].pc = "idle"
    /\ IF findUserById(userId) = {}
       THEN Rejected(p, "generateRegistrationOptions", userId, NoResponse,
                     "SubjectNotFound")
       ELSE /\ CanMint
            /\ Entered(p, "generateRegistrationOptions", userId, NoResponse,
                       userId, NoCredential, "setChallenge")
    /\ UNCHANGED <<Wiring, Tables, Keyspace, Memory, minted, History>>

generateAuthenticationOptions(p, userId) ==
    /\ proc[p].pc = "idle"
    /\ IF findUserById(userId) = {} \/ userCredentials(userId) = {}
       THEN Rejected(p, "generateAuthenticationOptions", userId, NoResponse,
                     "NoCredentials")
       ELSE /\ CanMint
            /\ Entered(p, "generateAuthenticationOptions", userId, NoResponse,
                       userId, NoCredential, "setChallenge")
    /\ UNCHANGED <<Wiring, Tables, Keyspace, Memory, minted, History>>

generateAuthenticationOptionsByEmail(p, email) ==
    /\ proc[p].pc = "idle"
    /\ IF findUserByEmail(email) = {}
       THEN Rejected(p, "generateAuthenticationOptionsByEmail", email, NoResponse,
                     "SubjectNotFound")
       ELSE \E u \in findUserByEmail(email) :
              IF userCredentials(u.id) = {}
              THEN Rejected(p, "generateAuthenticationOptionsByEmail", email,
                            NoResponse, "NoCredentials")
              ELSE /\ CanMint
                   /\ Entered(p, "generateAuthenticationOptionsByEmail", email,
                              NoResponse, u.id, NoCredential, "setChallenge")
    /\ UNCHANGED <<Wiring, Tables, Keyspace, Memory, minted, History>>

verifyRegistration(p, userId, resp) ==
    /\ proc[p].pc = "idle"
    /\ IF findUserById(userId) = {}
       THEN Rejected(p, "verifyRegistration", userId, resp, "SubjectNotFound")
       ELSE /\ CanInsert
            /\ Entered(p, "verifyRegistration", userId, resp, userId,
                       NoCredential, "getChallenge")
    /\ UNCHANGED <<Wiring, Tables, Keyspace, Memory, minted, History>>

\* the user row with its credentials, then the credential the response names
LookupCredential(p, op, subj, found, resp, pc) ==
    IF found = {}
    THEN Rejected(p, op, subj, resp, "SubjectNotFound")
    ELSE \E u \in found :
           IF findCredential(userCredentials(u.id), resp.id) = {}
           THEN Rejected(p, op, subj, resp, "CredentialNotFound")
           ELSE \E c \in findCredential(userCredentials(u.id), resp.id) :
                  Entered(p, op, subj, resp, u.id, c, pc)

\* a variant that deletes the stored challenge before it looks anything up
verifyAuthentication_takesFirst(p, userId, resp) ==
    /\ proc[p].pc = "idle"
    /\ LookupCredential(p, "verifyAuthentication", userId, findUserById(userId),
                        resp, "getChallenge")
    /\ IF version = "redis"
       THEN /\ redis' = [k \in Keys |-> IF k = <<"auth", userId>>
                                        THEN NoRecord ELSE redis[k]]
            /\ age' = [k \in Keys |-> IF redis'[k] = NoRecord THEN 0 - 1 ELSE age[k]]
            /\ UNCHANGED <<challenges, clock>>
       ELSE /\ challenges' = [k \in Keys |-> IF k = <<"auth", userId>>
                                             THEN NoEntry ELSE challenges[k]]
            /\ UNCHANGED <<redis, age, clock>>
    /\ UNCHANGED <<version, strict, seq, users, credentials, credSeq, minted,
                   accepted, issued, taken, offered>>

verifyAuthentication(p, userId, resp) ==
    /\ proc[p].pc = "idle"
    /\ LookupCredential(p, "verifyAuthentication", userId, findUserById(userId),
                        resp, "getChallenge")
    /\ UNCHANGED <<Wiring, Tables, Keyspace, Memory, minted, History>>

verifyAuthenticationByEmail(p, email, resp) ==
    /\ proc[p].pc = "idle"
    /\ LookupCredential(p, "verifyAuthenticationByEmail", email,
                        findUserByEmail(email), resp, "getChallenge")
    /\ UNCHANGED <<Wiring, Tables, Keyspace, Memory, minted, History>>

deleteCredential(p, userId, rowId) ==
    /\ proc[p].pc = "idle"
    /\ IF findCredentialRow(rowId, userId) = {}
       THEN Rejected(p, "deleteCredential", userId, NoResponse,
                     "CredentialNotFound")
       ELSE \E c \in findCredentialRow(rowId, userId) :
              Entered(p, "deleteCredential", userId, NoResponse, userId, c, "remove")
    /\ UNCHANGED <<Wiring, Tables, Keyspace, Memory, minted, History>>

(***************************************************************************)
(* AuthService: the last step of each handler, the same in both versions.  *)
(***************************************************************************)
Accept(c) == [accepted EXCEPT ![c] = @ + 1]

\* a variant that stores the device type as it came
deviceLabel_asGiven(deviceType) == deviceType

\* deviceType || "Unknown"
deviceLabel(deviceType) == IF deviceType = "" THEN "Unknown" ELSE deviceType

\* verifyRegistrationResponse, then credentialRepository.save(credential)
RegisterCredential(p) ==
    /\ \E v \in verifyRegistrationResponse(proc[p].resp, proc[p].expected) :
         IF ~v.verified
         THEN /\ Finished(p, "VerificationFailed", "none")
              /\ UNCHANGED <<Tables, accepted>>
         ELSE /\ credentials' = credentials \cup
                    {[id |-> credSeq + 1, credentialId |-> v.credentialID,
                      publicKey |-> v.credentialPublicKey,
                      userId |-> proc[p].user, counter |-> v.counter,
                      deviceType |-> deviceLabel(proc[p].resp.deviceType)]}
              /\ credSeq' = credSeq + 1
              /\ accepted' = Accept(proc[p].expected)
              /\ Finished(p, "ok", "none")
              /\ UNCHANGED users
    /\ UNCHANGED <<Wiring, Keyspace, Memory, minted, issued, taken, offered>>

\* a variant that assigns and saves the counter before it looks at `verified`
UpdateCounter_savesFirst(p, profile) ==
    /\ \E v \in verifyAuthenticationResponse(proc[p].resp, proc[p].expected,
                                             proc[p].cred) :
         /\ credentials' =
                saveCredential([proc[p].cred EXCEPT !.counter = v.newCounter])
         /\ IF ~v.verified
            THEN /\ Finished(p, "VerificationFailed", "none")
                 /\ UNCHANGED accepted
            ELSE /\ accepted' = Accept(proc[p].expected)
                 /\ Finished(p, "ok", profile)
         /\ UNCHANGED <<users, credSeq>>
    /\ UNCHANGED <<Wiring, Keyspace, Memory, minted, issued, taken, offered>>

\* verifyAuthenticationResponse, then credential.counter = newCounter and
\* credentialRepository.save(credential)
UpdateCounter(p, profile) ==
    /\ \E v \in verifyAuthenticationResponse(proc[p].resp, proc[p].expected,
                                             proc[p].cred) :
         IF ~v.verified
         THEN /\ Finished(p, "VerificationFailed", "none")
              /\ UNCHANGED <<Tables, accepted>>
         ELSE /\ credentials' =
                    saveCredential([proc[p].cred EXCEPT !.counter = v.newCounter])
              /\ accepted' = Accept(proc[p].expected)
              /\ Finished(p, "ok", profile)
              /\ UNCHANGED <<users, credSeq>>
    /\ UNCHANGED <<Wiring, Keyspace, Memory, minted, issued, taken, offered>>

verifyRegistration_verify(p) ==
    /\ At(p, "verifyRegistration", "verify")
    /\ RegisterCredential(p)

\* return { verified: true }
verifyAuthentication_verify(p) ==
    /\ At(p, "verifyAuthentication", "verify")
    /\ UpdateCounter(p, "none")

\* return { verified: true, user: { id: user.id, email: user.email, ... } }
verifyAuthenticationByEmail_verify(p) ==
    /\ At(p, "verifyAuthenticationByEmail", "verify")
    /\ UpdateCounter(p, proc[p].user)

deleteCredential_remove(p) ==
    /\ At(p, "deleteCredential", "remove")
    /\ credentials' = removeCredential(proc[p].cred)
    /\ Finished(p, "ok", "none")
    /\ UNCHANGED <<Wiring, users, credSeq, Keyspace, Memory, minted, History>>

(***************************************************************************)
(* AuthService, Redis version: the steps on the keyspace.                  *)
(***************************************************************************)
\* options.challenge: a fresh random value
MintedChallenge == minted + 1

\* what is remembered of the challenges stored
Issue(key) == IF seq THEN [issued EXCEPT ![MintedChallenge] = key] ELSE issued
Take(c) == IF seq THEN taken \cup {c} ELSE taken
\* the credential ids in the options of the begin of p, which it stores the
\* challenge of
Offer(p) ==
    IF seq
    THEN [offered EXCEPT ![MintedChallenge] =
                             returnedOptions(proc[p].op, proc[p].subj).credentialIds]
    ELSE offered

\* the records deleted or expired have no age
AgeOf(keyspace, ages) ==
    [k \in Keys |-> IF keyspace[k] = NoRecord THEN NoAge ELSE ages[k]]

\* await this.redisService.setChallenge(challengeKey, options.challenge, this.challengeTTL)
StoreChallenge(p, key) ==
    /\ version = "redis"
    /\ redis' = setChallenge(key, MintedChallenge, challengeTTL)
    /\ age' = AgeOf(redis', [age EXCEPT ![key] = 0])
    /\ minted' = minted + 1
    /\ issued' = Issue(key)
    /\ offered' = Offer(p)
    /\ Finished(p, "ok", "none")
    /\ UNCHANGED <<Wiring, Tables, Memory, accepted, taken>>

generateRegistrationOptions_setChallenge(p) ==
    /\ At(p, "generateRegistrationOptions", "setChallenge")
    /\ StoreChallenge(p, ChallengeKey("reg", proc[p].subj))

generateAuthenticationOptions_setChallenge(p) ==
    /\ At(p, "generateAuthenticationOptions", "setChallenge")
    /\ StoreChallenge(p, ChallengeKey("auth", proc[p].subj))

generateAuthenticationOptionsByEmail_setChallenge(p) ==
    /\ At(p, "generateAuthenticationOptionsByEmail", "setChallenge")
    /\ StoreChallenge(p, ChallengeKey("auth-email", proc[p].subj))

\* const challenge = await this.redisService.getChallenge(key); if (!challenge) throw
ReadChallenge(p, key) ==
    /\ version = "redis"
    /\ IF getChallenge(key) = NoChallenge
       THEN /\ Finished(p, "ChallengeExpiredOrMissing", "none")
            /\ taken' = taken
       ELSE /\ Continued(p, "deleteChallenge", getChallenge(key))
            /\ taken' = Take(getChallenge(key))
    /\ UNCHANGED <<Wiring, Tables, Keyspace, Memory, minted, accepted, issued, offered>>

\* await this.redisService.deleteChallenge(key)
DropChallenge(p, key) ==
    /\ version = "redis"
    /\ redis' = deleteChallenge(key)
    /\ age' = AgeOf(redis', age)
    /\ Continued(p, "verify", proc[p].expected)
    /\ UNCHANGED <<Wiring, Tables, Memory, minted, History>>

CeremonyType(op) == IF op = "verifyRegistration" THEN "reg" ELSE "auth"

getExpectedChallenge_get(p) ==
    /\ proc[p].pc = "getChallenge"
    /\ proc[p].op \in {"verifyRegistration", "verifyAuthentication"}
    /\ ReadChallenge(p, ChallengeKey(CeremonyType(proc[p].op), proc[p].subj))

getExpectedChallenge_delete(p) ==
    /\ proc[p].pc = "deleteChallenge"
    /\ proc[p].op \in {"verifyRegistration", "verifyAuthentication"}
    /\ DropChallenge(p, ChallengeKey(CeremonyType(proc[p].op), proc[p].subj))

verifyAuthenticationByEmail_get(p) ==
    /\ At(p, "verifyAuthenticationByEmail", "getChallenge")
    /\ ReadChallenge(p, ChallengeKey("auth-email", proc[p].subj))

verifyAuthenticationByEmail_delete(p) ==
    /\ At(p, "verifyAuthenticationByEmail", "deleteChallenge")
    /\ DropChallenge(p, ChallengeKey("auth-email", proc[p].subj))

\* the time a record has been stored, no further than the time to live
Older(a) ==
    IF a + Quantum > challengeTTL * 1000 THEN challengeTTL * 1000 ELSE a + Quantum

\* time passes; Redis expires the keys whose time has come
Tick ==
    /\ version = "redis"
    /\ \E k \in Keys : redis[k] # NoRecord
    /\ redis' = expireKeys(Quantum)
    /\ age' = AgeOf(redis', [k \in Keys |-> Older(age[k])])
    /\ Idle
    /\ UNCHANGED <<Wiring, Tables, Memory, minted, History>>

(***************************************************************************)
(* AuthService, in-memory version: the steps on the Map.  Reading and      *)
(* deleting a challenge is synchronous code, one step.                     *)
(***************************************************************************)
\* this.challenges.set(key, { challenge, timestamp: Date.now() })
setInMemory(key, challenge, now) ==
    [challenges EXCEPT ![key] = [challenge |-> challenge, timestamp |-> now]]

StoreChallengeInMemory(p, key) ==
    /\ version = "memory"
    /\ challenges' = setInMemory(key, MintedChallenge, clock)
    /\ minted' = minted + 1
    /\ issued' = Issue(key)
    /\ offered' = Offer(p)
    /\ Finished(p, "ok", "none")
    /\ UNCHANGED <<Wiring, Tables, Keyspace, clock, accepted, taken>>

generateRegistrationOptionsInMemory_set(p) ==
    /\ At(p, "generateRegistrationOptions", "setChallenge")
    /\ StoreChallengeInMemory(p, ChallengeKey("reg", proc[p].subj))

generateAuthenticationOptionsInMemory_set(p) ==
    /\ At(p, "generateAuthenticationOptions", "setChallenge")
    /\ StoreChallengeInMemory(p, ChallengeKey("auth", proc[p].subj))

generateAuthenticationOptionsByEmailInMemory_set(p) ==
    /\ At(p, "generateAuthenticationOptionsByEmail", "setChallenge")
    /\ StoreChallengeInMemory(p, ChallengeKey("auth-email", proc[p].subj))

\* a variant that leaves the entry in the Map
TakeChallengeInMemory_keeps(p, key) ==
    /\ version = "memory"
    /\ IF challenges[key] = NoEntry
       THEN /\ Finished(p, "ChallengeExpiredOrMissing", "none")
            /\ taken' = taken
       ELSE /\ Continued(p, "verify", challenges[key].challenge)
            /\ taken' = Take(challenges[key].challenge)
    /\ UNCHANGED <<Wiring, Tables, Keyspace, Memory, minted, accepted, issued, offered>>

\* const stored = this.challenges.get(key); if (!stored) throw;
\* this.challenges.delete(key); return stored.challenge
TakeChallengeInMemory(p, key) ==
    /\ version = "memory"
    /\ IF challenges[key] = NoEntry
       THEN /\ Finished(p, "ChallengeExpiredOrMissing", "none")
            /\ UNCHANGED <<challenges, taken>>
       ELSE /\ challenges' = [challenges EXCEPT ![key] = NoEntry]
            /\ Continued(p, "verify", challenges[key].challenge)
            /\ taken' = Take(challenges[key].challenge)
    /\ UNCHANGED <<Wiring, Tables, Keyspace, clock, minted, accepted, issued, offered>>

getExpectedChallengeInMemory(p) ==
    /\ proc[p].pc = "getChallenge"
    /\ proc[p].op \in {"verifyRegistration", "verifyAuthentication"}
    /\ TakeChallengeInMemory(p, ChallengeKey(CeremonyType(proc[p].op), proc[p].subj))

verifyAuthenticationByEmailInMemory_take(p) ==
    /\ At(p, "verifyAuthenticationByEmail", "getChallenge")
    /\ TakeChallengeInMemory(p, ChallengeKey("auth-email", proc[p].subj))

\* a variant that deletes the entries that have reached expirationTime
sweep_atLeast(now) ==
    [k \in Keys |-> IF /\ challenges[k] # NoEntry
                       /\ now - challenges[k].timestamp >= expirationTime
                    THEN NoEntry ELSE challenges[k]]

\* the entries as the callback of setInterval leaves them: every entry older
\* than expirationTime is deleted
sweep(now) ==
    [k \in Keys |-> IF /\ challenges[k] # NoEntry
                       /\ now - challenges[k].timestamp > expirationTime
                    THEN NoEntry ELSE challenges[k]]

\* the same entries, their timestamps counted from `origin`
since(entries, origin) ==
    [k \in Keys |-> IF entries[k] = NoEntry THEN NoEntry
                    ELSE [entries[k] EXCEPT !.timestamp = @ - origin]]

\* setInterval(() => { ... }, 300000): the interval fires
Sweep ==
    /\ version = "memory"
    /\ clock = cleanupInterval
    /\ challenges' = since(sweep(clock), clock)
    /\ clock' = 0
    /\ Idle
    /\ UNCHANGED <<Wiring, Tables, Keyspace, minted, History>>

\* time passes in the in-memory version, never past the interval that is due
TickInMemory ==
    /\ version = "memory"
    /\ clock + Quantum <= cleanupInterval
    /\ clock' = clock + Quantum
    /\ Idle
    /\ UNCHANGED <<Wiring, Tables, Keyspace, challenges, minted, History>>

(***************************************************************************)
(* Specifications.                                                         *)
(***************************************************************************)
\* The tables the service is constructed over: two registered users, and the
\* credentials earlier registration ceremonies have left.
SeedCredential(rowId, credentialId, userId) ==
    [id |-> rowId, credentialId |-> credentialId, publicKey |-> credentialId,
     userId |-> userId, counter |-> 0, deviceType |-> "Unknown"]

InitialCredentials ==
    { {},
      { SeedCredential(1, "kA", "u1") },
      { SeedCredential(1, "kA", "u1"), SeedCredential(2, "kB", "u2") } }

InitTables ==
    /\ users = { [id |-> "u1", email |-> "e1"], [id |-> "u2", email |-> "e2"] }
    /\ credentials \in InitialCredentials
    /\ credSeq = Cardinality(credentials)

InitCommon ==
    /\ InitTables
    /\ redis = [k \in Keys |-> NoRecord]
    /\ challenges = [k \in Keys |-> NoEntry]
    /\ clock = 0
    /\ minted = 0
    /\ proc = [p \in Procs |-> IdleProc]
    /\ out = NoOut
    /\ accepted = [c \in 1..MaxChallenges |-> 0]
    /\ age = [k \in Keys |-> NoAge]
    /\ issued = [c \in 1..MaxChallenges |-> NoKey]
    /\ offered = [c \in 1..MaxChallenges |-> {}]
    /\ taken = {}
    /\ done = NoDone
    /\ last = NoCall
    /\ page = InitialPage
    /\ client = [times |-> 0, delays |-> <<>>]

\* concurrent clients of the Redis version over at most one credential, a
\* verifier that reports any counter
InitConcurrent ==
    /\ InitCommon
    /\ Cardinality(credentials) <= 1
    /\ version = "redis"
    /\ seq = FALSE

Init == InitConcurrent /\ strict = FALSE

\* the same, a verifier that wants the counter to grow
InitStrict == InitConcurrent /\ strict = TRUE

\* one call at a time, of either version (the in-memory version over at most
\* one credential)
InitSeq ==
    /\ InitCommon
    /\ version \in {"redis", "memory"}
    /\ version = "memory" => Cardinality(credentials) <= 1
    /\ strict = FALSE
    /\ seq = TRUE

AnyUserId == UserIds \cup {UnknownUserId}
AnyEmail == Emails \cup {"e0"}

\* Clients are interchangeable: the second slot serves only a call that
\* overlaps the call in the first, and no call when calls do not overlap.
MayStart(p) == p = "p1" \/ (~seq /\ proc["p1"].pc # "idle")

\* the registration ceremony and the deletion of credentials
CallReg(p) ==
    \/ \E u \in AnyUserId : generateRegistrationOptions(p, u)
    \/ \E u \in AnyUserId, r \in Responses : verifyRegistration(p, u, r)
    \/ \E u \in AnyUserId, i \in 1..MaxCredentials : deleteCredential(p, u, i)

StepReg(p) ==
    \/ generateRegistrationOptions_setChallenge(p)
    \/ getExpectedChallenge_get(p)
    \/ getExpectedChallenge_delete(p)
    \/ verifyRegistration_verify(p)
    \/ deleteCredential_remove(p)

StepRegInMemory(p) ==
    \/ generateRegistrationOptionsInMemory_set(p)
    \/ getExpectedChallengeInMemory(p)

\* the authentication ceremonies and the deletion of credentials
CallAuth(p) ==
    \/ \E u \in AnyUserId : generateAuthenticationOptions(p, u)
    \/ \E e \in AnyEmail : generateAuthenticationOptionsByEmail(p, e)
    \/ \E u \in AnyUserId, r \in Responses : verifyAuthentication(p, u, r)
    \/ \E e \in AnyEmail, r \in Responses : verifyAuthenticationByEmail(p, e, r)
    \/ \E u \in AnyUserId, i \in 1..MaxCredentials : deleteCredential(p, u, i)

StepAuth(p) ==
    \/ generateAuthenticationOptions_setChallenge(p)
    \/ generateAuthenticationOptionsByEmail_setChallenge(p)
    \/ getExpectedChallenge_get(p)
    \/ getExpectedChallenge_delete(p)
    \/ verifyAuthentication_verify(p)
    \/ verifyAuthenticationByEmail_get(p)
    \/ verifyAuthenticationByEmail_delete(p)
    \/ verifyAuthenticationByEmail_verify(p)
    \/ deleteCredential_remove(p)

StepAuthInMemory(p) ==
    \/ generateAuthenticationOptionsInMemory_set(p)
    \/ generateAuthenticationOptionsByEmailInMemory_set(p)
    \/ getExpectedChallengeInMemory(p)
    \/ verifyAuthenticationByEmailInMemory_take(p)

NextReg == (\E p \in Procs : (MayStart(p) /\ CallReg(p)) \/ StepReg(p)) \/ Tick
NextAuth == (\E p \in Procs : (MayStart(p) /\ CallAuth(p)) \/ StepAuth(p)) \/ Tick

NextRegInMemory == (\E p \in Procs : StepRegInMemory(p)) \/ TickInMemory \/ Sweep
NextAuthInMemory == (\E p \in Procs : StepAuthInMemory(p)) \/ TickInMemory \/ Sweep

\* the ceremonies apart, concurrent clients of the Redis version
SpecReg == Init /\ [][NextReg]_vars
SpecAuth == Init /\ [][NextAuth]_vars
SpecAuthStrict == InitStrict /\ [][NextAuth]_vars

\* the ceremonies apart, one call at a time, of either version
SpecSeqReg == InitSeq /\ [][NextReg \/ NextRegInMemory]_vars
SpecSeqAuth == InitSeq /\ [][NextAuth \/ NextAuthInMemory]_vars

\* The registration ceremony over an empty credentials table, one call at a
\* time, where time does not stop: Redis runs its expiry and the timer of
\* setInterval keeps firing.  No call is assumed to return.
InitLive == InitSeq /\ credentials = {}

SpecLiveReg ==
    /\ InitLive
    /\ [][NextReg \/ NextRegInMemory]_vars
    /\ WF_vars(Tick)
    /\ WF_vars(TickInMemory)
    /\ WF_vars(Sweep)

\* The registration ceremony of the Redis version, one call at a time, where
\* verifyRegistration is called with and without a device type.
NextRegWithDevice ==
    \/ \E p \in Procs :
           \/ MayStart(p) /\ \E u \in AnyUserId : generateRegistrationOptions(p, u)
           \/ MayStart(p) /\ \E u \in AnyUserId, r \in Attestations :
                                verifyRegistration(p, u, r)
           \/ MayStart(p) /\ \E u \in AnyUserId, i \in 1..MaxCredentials :
                                deleteCredential(p, u, i)
           \/ StepReg(p)
    \/ Tick

InitSeqRedis == InitSeq /\ version = "redis" /\ Cardinality(credentials) <= 1

SpecSeqRegWithDevice == InitSeqRedis /\ [][NextRegWithDevice]_vars

\* The authentication ceremonies of the in-memory version, concurrent clients.
NextAuthConcurrentInMemory ==
    \/ \E p \in Procs :
           \/ MayStart(p) /\ CallAuth(p)
           \/ verifyAuthentication_verify(p)
           \/ verifyAuthenticationByEmail_verify(p)
           \/ deleteCredential_remove(p)
    \/ NextAuthInMemory

InitInMemory ==
    /\ InitCommon
    /\ Cardinality(credentials) <= 1
    /\ version = "memory"
    /\ strict = FALSE
    /\ seq = FALSE

SpecAuthInMemory == InitInMemory /\ [][NextAuthConcurrentInMemory]_vars

\* Both ceremonies of the Redis version, one call at a time.
NextBoth ==
    \/ \E p \in Procs :
           \/ MayStart(p) /\ CallReg(p)
           \/ MayStart(p) /\ \E u \in AnyUserId : generateAuthenticationOptions(p, u)
           \/ MayStart(p) /\ \E e \in AnyEmail : generateAuthenticationOptionsByEmail(p, e)
           \/ MayStart(p) /\ \E u \in AnyUserId, r \in Responses :
                                verifyAuthentication(p, u, r)
           \/ MayStart(p) /\ \E e \in AnyEmail, r \in Responses :
                                verifyAuthenticationByEmail(p, e, r)
           \/ StepReg(p)
           \/ generateAuthenticationOptions_setChallenge(p)
           \/ generateAuthenticationOptionsByEmail_setChallenge(p)
           \/ verifyAuthentication_verify(p)
           \/ verifyAuthenticationByEmail_get(p)
           \/ verifyAuthenticationByEmail_delete(p)
           \/ verifyAuthenticationByEmail_verify(p)
    \/ Tick

SpecSeqBoth == InitSeqRedis /\ [][NextBoth]_vars

\* The challenge store by itself: setChallenge and Map.set called with any
\* challenge under the registration keys, at any time.
StoreKeys == {"reg"} \X UserIds

putChallenge(key, challenge) ==
    /\ version = "redis"
    /\ redis' = setChallenge(key, challenge, challengeTTL)
    /\ age' = AgeOf(redis', [age EXCEPT ![key] = 0])
    /\ Idle
    /\ UNCHANGED <<Wiring, Tables, Memory, minted, History>>

putChallengeInMemory(key, challenge) ==
    /\ version = "memory"
    /\ challenges' = setInMemory(key, challenge, clock)
    /\ Idle
    /\ UNCHANGED <<Wiring, Tables, Keyspace, clock, minted, History>>

NextStore ==
    \/ \E k \in StoreKeys, c \in 1..MaxChallenges : putChallenge(k, c)
    \/ \E k \in StoreKeys, c \in 1..MaxChallenges : putChallengeInMemory(k, c)
    \/ Tick
    \/ TickInMemory
    \/ Sweep

SpecStore == InitLive /\ [][NextStore]_vars

\* AuthService.register, concurrent clients: the existence check, the hash of
\* the password and the save are three awaits.  The emails a client sends are
\* those of the registered users and two more; the ids of new rows are uuids.
FreshUserIds == {"u3", "u4"}

\* a variant without the unique index on users.email
violatesUniqueEmail_never(email) == FALSE

\* @Column({ unique: true }) email: the insert of a second row with the email fails
violatesUniqueEmail(email) == \E u \in users : u.email = email

register(p, email) ==
    /\ proc[p].pc = "idle"
    /\ IF findUserByEmail(email) # {}
       THEN Rejected(p, "register", email, NoResponse, "UserAlreadyExists")
       ELSE Entered(p, "register", email, NoResponse, "none", NoCredential, "hash")
    /\ UNCHANGED <<Wiring, Tables, Keyspace, Memory, minted, History>>

\* await bcrypt.hash(password, 10)
register_hash(p) ==
    /\ At(p, "register", "hash")
    /\ Continued(p, "save", NoChallenge)
    /\ UNCHANGED <<Wiring, Tables, Keyspace, Memory, minted, History>>

\* await this.userRepository.save(user)
register_save(p) ==
    /\ At(p, "register", "save")
    /\ \E i \in FreshUserIds : \A u \in users : u.id # i
    /\ IF violatesUniqueEmail(proc[p].subj)
       THEN /\ Finished(p, "QueryFailed", "none")
            /\ users' = users
       ELSE /\ Finished(p, "ok", "none")
            /\ users' = users \cup
                          {[id |-> CHOOSE i \in FreshUserIds : \A u \in users : u.id # i,
                            email |-> proc[p].subj]}
    /\ UNCHANGED <<Wiring, credentials, credSeq, Keyspace, Memory, minted, History>>

NextRegister ==
    \E p \in Procs :
        \/ MayStart(p) /\ \E e \in AnyEmail \cup {"e3"} : register(p, e)
        \/ register_hash(p)
        \/ register_save(p)

SpecRegister == Init /\ [][NextRegister]_vars

\* The two versions side by side: the same calls, one at a time and at the
\* same instants, reach the challenge store of each.  The handlers are the
\* same code but for the store, so a call is what it does to the two stores:
\* a begin stores the fresh challenge in both, a completion takes from both.
TwinBegin(key) ==
    /\ minted < MaxChallenges
    /\ redis' = setChallenge(key, MintedChallenge, challengeTTL)
    /\ age' = AgeOf(redis', [age EXCEPT ![key] = 0])
    /\ challenges' = setInMemory(key, MintedChallenge, clock)
    /\ minted' = minted + 1
    /\ Idle
    /\ UNCHANGED <<Wiring, Tables, clock, History>>

\* a completion, of a challenge that has not been stored for 5 minutes
TwinComplete(key) ==
    /\ challenges[key] # NoEntry
         => clock - challenges[key].timestamp < expirationTime
    /\ redis' = IF getChallenge(key) # NoChallenge THEN deleteChallenge(key) ELSE redis
    /\ age' = AgeOf(redis', age)
    /\ challenges' = IF challenges[key] # NoEntry
                     THEN [challenges EXCEPT ![key] = NoEntry] ELSE challenges
    /\ Idle
    /\ UNCHANGED <<Wiring, Tables, clock, minted, History>>

TwinTick ==
    /\ clock + Quantum <= cleanupInterval
    /\ clock' = clock + Quantum
    /\ redis' = expireKeys(Quantum)
    /\ age' = AgeOf(redis', [k \in Keys |-> Older(age[k])])
    /\ Idle
    /\ UNCHANGED <<Wiring, Tables, challenges, minted, History>>

TwinSweep ==
    /\ clock = cleanupInterval
    /\ challenges' = since(sweep(clock), clock)
    /\ clock' = 0
    /\ Idle
    /\ UNCHANGED <<Wiring, Tables, Keyspace, minted, History>>

NextTwin ==
    \/ \E k \in Keys : TwinBegin(k)
    \/ \E k \in Keys : TwinComplete(k)
    \/ TwinTick
    \/ TwinSweep

SpecTwin == InitLive /\ [][NextTwin]_vars

(***************************************************************************)
(* The Login page (frontend/src/pages/Login.tsx) over the Redis version.   *)
(* A handler runs up to its await in one step; the server serves a request *)
(* in one step, the whole of the handler of AuthService; the rest of the   *)
(* handler of the page runs when the response is back.  The user acts on   *)
(* what the step on screen offers, between any two of these.               *)
(***************************************************************************)
ServerUntouched ==
    UNCHANGED <<Wiring, Tables, Keyspace, Memory, minted, History, proc, out, done, last,
                client>>

\* EmailStep: <Input onChange={(e) => onEmailChange(e.target.value)} />
onEmailChange(value) ==
    /\ page.location = "/login" /\ page.step = "email"
    /\ value # page.email
    /\ page' = [page EXCEPT !.email = value]
    /\ ServerUntouched

\* EmailStep: the button is disabled until the email is filled
handleEmailContinue ==
    /\ page.location = "/login" /\ page.step = "email"
    /\ page.email # ""
    /\ page' = [page EXCEPT !.step = "password", !.error = ""]
    /\ ServerUntouched

\* PasswordStep: <Input onChange={(e) => onPasswordChange(e.target.value)} />
onPasswordChange(value) ==
    /\ page.location = "/login" /\ page.step = "password"
    /\ value # page.password
    /\ page' = [page EXCEPT !.password = value]
    /\ ServerUntouched

\* PasswordStep: the submit button is disabled={loading || !password}
handlePasswordLogin ==
    /\ page.location = "/login" /\ page.step = "password"
    /\ ~page.loading /\ page.password # ""
    /\ page' = [page EXCEPT !.error = "", !.loading = TRUE,
                            !.login = [NoRequest EXCEPT !.status = "sent",
                                                        !.email = page.email]]
    /\ ServerUntouched

\* AuthService.login: the user of the email, when the password is the user's
login ==
    /\ page.login.status = "sent"
    /\ \E r \in {"Invalid credentials"}
                  \cup { u.id : u \in findUserByEmail(page.login.email) } :
         page' = [page EXCEPT !.login.status = "served", !.login.result = r]
    /\ ServerUntouched

\* handlePasswordLogin after await api.login: try, catch, finally
handlePasswordLogin_return ==
    /\ page.login.status = "served"
    /\ page' = IF page.login.result = "Invalid credentials"
               THEN [page EXCEPT !.error = "Login failed", !.loading = FALSE,
                                 !.login = NoRequest]
               ELSE [page EXCEPT !.userId = page.login.result,
                                 !.location = "/dashboard", !.loading = FALSE,
                                 !.login = NoRequest]
    /\ ServerUntouched

\* PasswordStep: the passkey button is disabled={generatingOptions}
handleStartPasskeyLogin ==
    /\ page.location = "/login" /\ page.step = "password"
    /\ ~page.generatingOptions
    /\ minted < MaxChallenges
    /\ page' = IF page.email = ""
               THEN [page EXCEPT !.error = "Please enter your email"]
               ELSE [page EXCEPT !.generatingOptions = TRUE, !.error = "",
                                 !.options = [NoRequest EXCEPT !.status = "sent",
                                                               !.email = page.email]]
    /\ ServerUntouched

\* POST webauthn/login/options: generateAuthenticationOptionsByEmail(body.email)
generateLoginOptions ==
    /\ page.options.status = "sent"
    /\ LET email == page.options.email
           owned == UNION { userCredentials(u.id) : u \in findUserByEmail(email) }
       IN  IF owned = {}
           THEN /\ page' = [page EXCEPT !.options.status = "served",
                                        !.options.result = "error"]
                /\ UNCHANGED <<Keyspace, minted, issued, offered>>
           ELSE /\ redis' = setChallenge(ChallengeKey("auth-email", email),
                                         MintedChallenge, challengeTTL)
                /\ age' = AgeOf(redis', [age EXCEPT ![ChallengeKey("auth-email", email)] = 0])
                /\ minted' = minted + 1
                /\ issued' = Issue(ChallengeKey("auth-email", email))
                /\ offered' = [offered EXCEPT ![MintedChallenge] =
                                 { c.credentialId : c \in owned }]
                /\ page' = [page EXCEPT
                              !.options.status = "served",
                              !.options.result = "ok",
                              !.options.options =
                                  returnedOptions("generateAuthenticationOptionsByEmail",
                                                  email)]
    /\ UNCHANGED <<Wiring, Tables, Memory, accepted, taken, proc, out, done, last, client>>

\* handleStartPasskeyLogin after await api.generateLoginOptions
handleStartPasskeyLogin_return ==
    /\ page.options.status = "served"
    /\ page' = IF page.options.result = "ok"
               THEN [page EXCEPT !.passkeyOptions = page.options.options,
                                 !.optionsEmail = page.options.email,
                                 !.step = "passkey",
                                 !.generatingOptions = FALSE,
                                 !.options = NoRequest]
               ELSE [page EXCEPT !.error = "Unable to generate authentication options",
                                 !.generatingOptions = FALSE,
                                 !.options = NoRequest]
    /\ ServerUntouched

\* PasswordStep and PasskeyStep: the Back button is never disabled
handleBackToEmail ==
    /\ page.location = "/login" /\ page.step \in {"password", "passkey"}
    /\ page' = [page EXCEPT !.step = "email", !.passkeyOptions = NoOptions,
                            !.optionsEmail = "", !.password = "", !.error = ""]
    /\ ServerUntouched

\* PasskeyStep: the confirm button is disabled={authenticating}
handleAuthenticateWithPasskey ==
    /\ page.location = "/login" /\ page.step = "passkey"
    /\ ~page.authenticating
    /\ page' = IF page.passkeyOptions = NoOptions
               THEN [page EXCEPT !.error = "Missing authentication options"]
               ELSE [page EXCEPT !.authenticating = TRUE, !.error = "",
                                 !.passkey = [NoRequest EXCEPT
                                                !.status = "prompt",
                                                !.email = page.email,
                                                !.options = page.passkeyOptions]]
    /\ ServerUntouched

\* startAuthentication(passkeyOptions) rejects with NotAllowedError: catch, finally
startAuthentication_cancelled ==
    /\ page.passkey.status = "prompt"
    /\ page' = [page EXCEPT !.error = "Authentication was cancelled",
                            !.authenticating = FALSE, !.passkey = NoRequest]
    /\ ServerUntouched

\* startAuthentication(passkeyOptions) resolves with an assertion of one of the
\* credentials allowed, over the challenge of the options; api.verifyLogin is called
startAuthentication ==
    /\ page.passkey.status = "prompt"
    /\ \E id \in page.passkey.options.credentialIds, valid \in BOOLEAN :
         page' = [page EXCEPT
                    !.passkey.status = "sent",
                    !.passkey.response =
                        [id |-> id, challenge |-> page.passkey.options.challenge,
                         valid |-> valid, deviceType |-> ""]]
    /\ ServerUntouched

\* verifyAuthenticationByEmail(email, response), the whole call: what it
\* returns or throws and how it leaves the keyspace and the credentials
verifyLoginOutcomes(email, response) ==
    LET key == ChallengeKey("auth-email", email)
        untouched == [result |-> "none", redis |-> redis, credentials |-> credentials,
                      taken |-> taken, accepted |-> accepted]
    IN  IF findUserByEmail(email) = {}
        THEN { [untouched EXCEPT !.result = "SubjectNotFound"] }
        ELSE UNION {
          IF findCredential(userCredentials(u.id), response.id) = {}
          THEN { [untouched EXCEPT !.result = "CredentialNotFound"] }
          ELSE IF getChallenge(key) = NoChallenge
          THEN { [untouched EXCEPT !.result = "ChallengeExpiredOrMissing"] }
          ELSE UNION {
            { IF v.verified
              THEN [result |-> u.id,
                    redis |-> deleteChallenge(key),
                    credentials |-> saveCredential([c EXCEPT !.counter = v.newCounter]),
                    taken |-> Take(getChallenge(key)),
                    accepted |-> Accept(getChallenge(key))]
              ELSE [result |-> "VerificationFailed",
                    redis |-> deleteChallenge(key),
                    credentials |-> credentials,
                    taken |-> Take(getChallenge(key)),
                    accepted |-> accepted] :
                v \in verifyAuthenticationResponse(response, getChallenge(key), c) } :
              c \in findCredential(userCredentials(u.id), response.id) } :
            u \in findUserByEmail(email) }

\* POST webauthn/login/verify
verifyLogin ==
    /\ page.passkey.status = "sent"
    /\ \E o \in verifyLoginOutcomes(page.passkey.email, page.passkey.response) :
         /\ redis' = o.redis
         /\ age' = AgeOf(redis', age)
         /\ credentials' = o.credentials
         /\ taken' = o.taken
         /\ accepted' = o.accepted
         /\ page' = [page EXCEPT
                       !.passkey.status = "served",
                       !.passkey.result = o.result,
                       !.rejectedAt = IF o.result \in UserIds THEN @ ELSE minted]
    /\ UNCHANGED <<Wiring, users, credSeq, Memory, minted, issued, offered,
                   proc, out, done, last, client>>

\* handleAuthenticateWithPasskey after await api.verifyLogin
handleAuthenticateWithPasskey_return ==
    /\ page.passkey.status = "served"
    /\ page' = IF page.passkey.result \in UserIds
               THEN [page EXCEPT !.userId = page.passkey.result,
                                 !.location = "/dashboard",
                                 !.authenticating = FALSE, !.passkey = NoRequest]
               ELSE [page EXCEPT !.error = "Passkey authentication failed",
                                 !.authenticating = FALSE, !.passkey = NoRequest]
    /\ ServerUntouched

NextPage ==
    \/ \E e \in {""} \cup Emails : onEmailChange(e)
    \/ handleEmailContinue
    \/ \E w \in {"", "password"} : onPasswordChange(w)
    \/ handlePasswordLogin
    \/ login
    \/ handlePasswordLogin_return
    \/ handleStartPasskeyLogin
    \/ generateLoginOptions
    \/ handleStartPasskeyLogin_return
    \/ handleBackToEmail
    \/ handleAuthenticateWithPasskey
    \/ startAuthentication_cancelled
    \/ startAuthentication
    \/ verifyLogin
    \/ handleAuthenticateWithPasskey_return

SpecPage == InitSeqRedis /\ [][NextPage]_vars

(***************************************************************************)
(* The Redis client of RedisService: ioredis calls retryStrategy with the  *)
(* number of the attempt, from 1, each time a connection is lost or not    *)
(* made, and starts counting again once connected.                         *)
(***************************************************************************)
\* Math.min(times * 50, 2000)
retryStrategy(times) == IF times * 50 < 2000 THEN times * 50 ELSE 2000

reconnect ==
    /\ client.times < MaxAttempts
    /\ client' = [times |-> client.times + 1,
                  delays |-> Append(client.delays, retryStrategy(client.times + 1))]
    /\ UNCHANGED <<Wiring, Tables, Keyspace, Memory, minted, History, proc, out, done,
                   last, page>>

connected ==
    /\ client.times > 0
    /\ client' = [times |-> 0, delays |-> <<>>]
    /\ UNCHANGED <<Wiring, Tables, Keyspace, Memory, minted, History, proc, out, done,
                   last, page>>

SpecClient == InitSeqRedis /\ [][reconnect \/ connected]_vars

(***************************************************************************)
(* Properties.                                                             *)
(***************************************************************************)
AuthenticationOps == {"verifyAuthentication", "verifyAuthenticationByEmail"}

\* the key a call stores its challenge under or takes it from
KeyOfCall(op, subj) ==
    CASE op \in {"generateRegistrationOptions", "verifyRegistration"} ->
           ChallengeKey("reg", subj)
      [] op \in {"generateAuthenticationOptions", "verifyAuthentication"} ->
           ChallengeKey("auth", subj)
      [] OTHER -> ChallengeKey("auth-email", subj)

KeyOf(p) == KeyOfCall(proc[p].op, proc[p].subj)

\* the challenge the wired-in version holds under key k, before and after a step
Stored(k) == IF version = "redis" THEN redis[k].challenge ELSE challenges[k].challenge
StoredAfter(k) ==
    IF version = "redis" THEN redis'[k].challenge ELSE challenges'[k].challenge

\* the challenge stored last under key k
LastIssued(k) ==
    LET S == { c \in 1..MaxChallenges : issued[c] = k }
    IN  IF S = {} THEN NoChallenge ELSE CHOOSE c \in S : \A d \in S : d <= c

\* the call of p reads the store in this step, and is handed a challenge
TakeStep(p) == proc[p].pc = "getChallenge" /\ proc'[p] # proc[p]
Delivers(p) == TakeStep(p) /\ proc'[p].pc \in {"deleteChallenge", "verify"}

\* the credential rows this step inserts
NewRows == { d \in credentials' : \A c \in credentials : c.id # d.id }

\* C1: of the completions of authentication ceremonies that race for one key
\* over one live challenge, exactly one succeeds: no challenge is accepted by
\* more than one call.
C1_OneCompletionPerChallenge == \A c \in 1..MaxChallenges : accepted[c] <= 1

C1_BothSucceed == \E c \in 1..MaxChallenges : accepted[c] = 2

\* C2: in a sequential run a take of key k succeeds exactly when a challenge is
\* stored under k; it is then handed the challenge stored last under k, which
\* no earlier take was handed; otherwise it fails with challenge-not-found.
C2_TakeOnce ==
    [][\A p \in Procs :
         TakeStep(p) =>
           IF Stored(KeyOf(p)) # NoChallenge
           THEN /\ Delivers(p)
                /\ proc'[p].expected = Stored(KeyOf(p))
                /\ proc'[p].expected = LastIssued(KeyOf(p))
                /\ proc'[p].expected \notin taken
           ELSE /\ proc'[p].pc = "idle"
                /\ done'.result = "ChallengeExpiredOrMissing"]_vars

C2_SecondTakeFails ==
    /\ done.result = "ChallengeExpiredOrMissing"
    /\ LastIssued(KeyOfCall(done.op, done.subj)) \in taken

\* C3: the stored counter of a credential never decreases, and a completion
\* that succeeds leaves the counter greater than it was (a reported counter
\* that is not greater makes the completion fail, the counter unchanged).
C3_CounterNeverDecreases ==
    [][/\ \A c \in credentials, d \in credentials' :
            d.id = c.id => d.counter >= c.counter
       /\ \A p \in Procs, c \in credentials, d \in credentials' :
            ( /\ proc[p].op \in AuthenticationOps
              /\ proc[p].pc = "verify"
              /\ proc'[p].pc = "idle"
              /\ out'.result = "ok"
              /\ c.id = proc[p].cred.id
              /\ d.id = c.id ) => d.counter > c.counter]_vars

\* C4: under every interleaving of authentication ceremonies on one
\* credential, with a verifier that accepts only a counter greater than the
\* one it is handed, the stored counter never goes down.
C4_CounterSerialized ==
    [][\A c \in credentials, d \in credentials' :
         d.id = c.id => d.counter >= c.counter]_vars

\* C5: verifyAuthenticationByEmail(E, resp) returns verified with a profile
\* only if a user with email E exists and the profile is theirs, resp names a
\* credential of that user, the challenge was stored by
\* generateAuthenticationOptionsByEmail(E), was read by this call and is no
\* longer stored, and resp is valid and signed over exactly that challenge.
C5_ByEmailSuccess ==
    (done.op = "verifyAuthenticationByEmail" /\ done.result = "ok") =>
       /\ \E u \in users :
            /\ u.email = done.subj
            /\ out.profile = u.id
            /\ \E d \in credentials :
                 d.credentialId = done.resp.id /\ d.userId = u.id
       /\ done.expected # NoChallenge
       /\ issued[done.expected] = ChallengeKey("auth-email", done.subj)
       /\ done.expected \in taken
       /\ Stored(ChallengeKey("auth-email", done.subj)) # done.expected
       /\ done.resp.valid
       /\ done.resp.challenge = done.expected

C5_ByEmailVerified ==
    /\ done.op = "verifyAuthenticationByEmail"
    /\ done.result = "ok"
    /\ out.profile \in UserIds

\* C6: verifyRegistration with a response that is not signed over the
\* challenge it took from the store fails with VerificationFailed and creates
\* no credential; a credential row is inserted only by a verifyRegistration
\* whose response is valid and signed over the challenge that call took from
\* the subject's registration key.
C6_RegistrationVerified ==
    [][/\ ( /\ done'.op = "verifyRegistration"
            /\ done'.expected # NoChallenge
            /\ (~done'.resp.valid \/ done'.resp.challenge # done'.expected) )
          => (done'.result = "VerificationFailed" /\ credentials' = credentials)
       /\ NewRows # {} =>
            /\ done'.op = "verifyRegistration"
            /\ done'.result = "ok"
            /\ done'.resp.valid
            /\ done'.resp.challenge = done'.expected
            /\ done'.expected \in taken
            /\ issued[done'.expected] = ChallengeKey("reg", done'.subj)
            /\ \A d \in NewRows :
                 d.credentialId = done'.resp.id /\ d.userId = done'.subj]_vars

C6_WrongChallengeRejected ==
    /\ done.op = "verifyRegistration"
    /\ done.result = "VerificationFailed"
    /\ done.resp.valid
    /\ done.expected # NoChallenge
    /\ done.resp.challenge # done.expected

C9_RedisExpiry ==
    [][version = "redis" =>
         \A p \in Procs :
           /\ (proc[p].pc = "setChallenge" /\ proc'[p].pc = "idle")
                => redis'[KeyOf(p)] = [challenge |-> minted + 1, ttl |-> 300 * 1000]
           /\ Delivers(p)
                => (age[KeyOf(p)] # NoAge /\ age[KeyOf(p)] < 300 * 1000)]_vars

C9_ExpiredUntaken ==
    /\ version = "redis"
    /\ done.result = "ChallengeExpiredOrMissing"
    /\ LastIssued(KeyOfCall(done.op, done.subj)) # NoChallenge
    /\ LastIssued(KeyOfCall(done.op, done.subj)) \notin taken

\* C10: in the in-memory version a take is handed a challenge only when no
\* more than 300000 ms have passed since the challenge was stored.
C10_MemoryExpiry ==
    [][\A p \in Procs :
         (version = "memory" /\ Delivers(p))
           => clock - challenges[KeyOf(p)].timestamp <= 300000]_vars

CompletionOps == AuthenticationOps \cup {"verifyRegistration"}

\* C11: a key holds one challenge, the one stored last: a begin replaces
\* whatever its key held by its fresh challenge, and a completion whose valid
\* response is signed over a challenge other than the one stored last under
\* its key is checked against the one stored last and fails verification.
C11_SecondBeginSupersedes ==
    [][/\ \A p \in Procs :
            (proc[p].pc = "setChallenge" /\ proc'[p].pc = "idle") =>
               /\ minted' = minted + 1
               /\ StoredAfter(KeyOf(p)) = minted'
               /\ StoredAfter(KeyOf(p)) # Stored(KeyOf(p))
       /\ ( /\ done'.op \in AuthenticationOps
            /\ done'.expected # NoChallenge
            /\ done'.resp.valid
            /\ done'.resp.challenge # LastIssued(KeyOfCall(done'.op, done'.subj)) )
          => /\ done'.expected = LastIssued(KeyOfCall(done'.op, done'.subj))
             /\ done'.result = "VerificationFailed"
             /\ credentials' = credentials]_vars

C11_FirstChallengeRejected ==
    /\ done.op \in AuthenticationOps
    /\ done.result = "VerificationFailed"
    /\ done.resp.valid
    /\ done.resp.challenge # NoChallenge
    /\ issued[done.resp.challenge] = KeyOfCall(done.op, done.subj)
    /\ done.resp.challenge \notin taken
    /\ done.expected = LastIssued(KeyOfCall(done.op, done.subj))
    /\ done.expected # done.resp.challenge

\* C12: of the verifyRegistration calls that race for one stored registration
\* challenge at most one succeeds: a credential row is inserted only against
\* a challenge no earlier call was accepted against.
C12_OneCredentialPerChallenge ==
    [][\A p \in Procs :
         ( /\ At(p, "verifyRegistration", "verify")
           /\ proc'[p].pc = "idle"
           /\ NewRows # {} ) => accepted[proc[p].expected] = 0]_vars

C14_CredentialLifecycle ==
    [][/\ NewRows # {} => (out'.op = "verifyRegistration" /\ out'.result = "ok")
       /\ (\E c \in credentials, d \in credentials' :
             d.id = c.id /\ d.counter # c.counter)
            => (out'.op \in AuthenticationOps /\ out'.result = "ok")
       /\ (\E c \in credentials : \A d \in credentials' : d.id # c.id)
            => (out'.op = "deleteCredential" /\ out'.result = "ok")]_vars

\* C15: credentialId is unique: no two credential rows carry the same
\* credentialId.
C15_CredentialIdUnique ==
    \A c \in credentials, d \in credentials :
        c.credentialId = d.credentialId => c.id = d.id

\* the user a completion of an authentication resolves its subject to
Resolved(op, subj) ==
    IF op = "verifyAuthentication" THEN findUserById(subj) ELSE findUserByEmail(subj)

\* C16: a completion of an authentication whose subject resolves to a user
\* that owns no credential with the credentialId the response names fails
\* with CredentialNotFound; the credential a completion verifies against, and
\* the row whose counter a successful one updates, belongs to that user.
C16_OnlyOwnCredential ==
    [][/\ ( /\ done'.op \in AuthenticationOps
            /\ Resolved(done'.op, done'.subj) # {}
            /\ \A u \in Resolved(done'.op, done'.subj), c \in credentials :
                 ~(c.userId = u.id /\ c.credentialId = done'.resp.id) )
          => (done'.result = "CredentialNotFound" /\ credentials' = credentials)
       /\ \A p \in Procs :
            (proc[p].op \in AuthenticationOps /\ proc[p].pc = "verify")
              => /\ \E u \in Resolved(proc[p].op, proc[p].subj) :
                      proc[p].cred.userId = u.id
                 /\ proc[p].cred.credentialId = proc[p].resp.id
                 /\ \A c \in credentials, d \in credentials' :
                      (d.id = c.id /\ d # c)
                        => (c.id = proc[p].cred.id /\ d.userId = proc[p].cred.userId)]_vars

C16_OthersCredentialRejected ==
    /\ done.op \in AuthenticationOps
    /\ done.result = "CredentialNotFound"
    /\ Resolved(done.op, done.subj) # {}
    /\ \E c \in credentials : c.credentialId = done.resp.id

OwnsNone(userId) == \A c \in credentials : c.userId # userId

\* C20: a begin of an authentication for a subject that owns no credential
\* fails with NoCredentials and stores no challenge:
\* generateAuthenticationOptions when the user has no credential or does not
\* exist, generateAuthenticationOptionsByEmail when the user exists and has
\* no credential.
C20_NoCredentialsNoChallenge ==
    [][( \/ /\ done'.op = "generateAuthenticationOptions"
            /\ OwnsNone(done'.subj)
         \/ /\ done'.op = "generateAuthenticationOptionsByEmail"
            /\ \E u \in users : u.email = done'.subj /\ OwnsNone(u.id) )
       => /\ done'.result = "NoCredentials"
          /\ redis' = redis
          /\ challenges' = challenges
          /\ minted' = minted]_vars

C20_ByEmailWithoutCredentials ==
    /\ done.op = "generateAuthenticationOptionsByEmail"
    /\ done.result = "NoCredentials"
    /\ credentials # {}
    /\ \E k \in Keys : Stored(k) # NoChallenge

\* the calls that fail with SubjectNotFound when their subject is unknown
SubjectOps ==
    {"generateRegistrationOptions", "verifyRegistration",
     "generateAuthenticationOptionsByEmail", "verifyAuthenticationByEmail"}

\* a user row has this id, or this email for the calls by email
SubjectExists(op, subj) ==
    \E u \in users :
        IF op \in {"generateAuthenticationOptionsByEmail", "verifyAuthenticationByEmail"}
        THEN u.email = subj ELSE u.id = subj

C22_NoResidue ==
    \A c \in 1..MaxChallenges :
        (\E k \in Keys : Stored(k) = c) ~> (\A k \in Keys : Stored(k) # c)

C22_AbandonedSwept ==
    /\ version = "memory"
    /\ minted = 1
    /\ issued[1] # NoKey
    /\ 1 \notin taken
    /\ \A k \in Keys : Stored(k) = NoChallenge

\* C23: deleteCredential(userId, id) goes on to remove the row with that id
\* when the row exists and belongs to userId, and otherwise fails with
\* CredentialNotFound and removes nothing; a row leaves the table only as
\* the row a deleteCredential of its owner found, and no other row with it.
C23_DeleteOwnCredential ==
    [][/\ \A p \in Procs, u \in AnyUserId, i \in 1..MaxCredentials :
            deleteCredential(p, u, i) =>
              /\ credentials' = credentials
              /\ IF \E c \in credentials : c.id = i /\ c.userId = u
                 THEN /\ proc'[p].pc = "remove"
                      /\ proc'[p].cred.id = i
                      /\ proc'[p].cred.userId = u
                 ELSE /\ proc' = proc
                      /\ out'.op = "deleteCredential"
                      /\ out'.result = "CredentialNotFound"
       /\ (\E c \in credentials : \A d \in credentials' : d.id # c.id)
            => \E p \in Procs :
                 /\ At(p, "deleteCredential", "remove")
                 /\ proc[p].cred.userId = proc[p].subj
                 /\ credentials' = { c \in credentials : c.id # proc[p].cred.id }
                 /\ out'.result = "ok"]_vars

C23_OthersCredentialKept ==
    /\ done.op = "deleteCredential"
    /\ done.result = "CredentialNotFound"
    /\ done.subj \in UserIds
    /\ credentials # {}
    /\ \A c \in credentials : c.userId # done.subj

\* C24: storing a challenge under a key leaves under that key the challenge
\* stored, whatever the key held, with the full 300 seconds to live (in
\* memory: stamped with the time of the store), and the other keys as they
\* were; storing the same challenge again at once changes nothing.
C24_StoreOverwrites ==
    [][\A k \in StoreKeys, c \in 1..MaxChallenges :
         /\ putChallenge(k, c) =>
              /\ redis'[k] = [challenge |-> c, ttl |-> 300 * 1000]
              /\ \A j \in Keys : j # k => redis'[j] = redis[j]
              /\ setChallenge(k, c, challengeTTL)' = redis'
         /\ putChallengeInMemory(k, c) =>
              /\ challenges'[k] = [challenge |-> c, timestamp |-> clock]
              /\ \A j \in Keys : j # k => challenges'[j] = challenges[j]
              /\ setInMemory(k, c, clock)' = challenges']_vars

C24_Restored ==
    /\ minted = 0
    /\ redis[ChallengeKey("reg", "u1")] = [challenge |-> 2, ttl |-> 300 * 1000]
    /\ redis[ChallengeKey("reg", "u2")] = [challenge |-> 1, ttl |-> 150 * 1000]

C26_RegisteredCredential ==
    [][(done'.op = "verifyRegistration" /\ done'.result = "ok") =>
         \E row \in credentials' :
            /\ \A c \in credentials : c.id # row.id
            /\ credentials' = credentials \cup {row}
            /\ row.userId = done'.subj
            /\ \E v \in verifyRegistrationResponse(done'.resp, done'.expected) :
                 /\ v.verified
                 /\ row.credentialId = v.credentialID
                 /\ row.publicKey = v.credentialPublicKey
                 /\ row.counter = v.counter
            /\ row.deviceType =
                 IF done'.resp.deviceType = "" THEN "Unknown"
                 ELSE done'.resp.deviceType]_vars

C26_RegisteredUnknownDevice ==
    /\ done.op = "verifyRegistration"
    /\ done.result = "ok"
    /\ done.resp.deviceType = ""
    /\ \E c \in credentials : c.id = credSeq /\ c.deviceType = "Unknown" /\ c.counter > 0
    /\ \E c \in credentials : c.id < credSeq /\ c.deviceType = "iOS"

\* C27: a completion of an authentication looks up its subject, then the
\* credential, then takes the challenge: a call that fails with
\* SubjectNotFound or CredentialNotFound has not read or deleted a stored
\* challenge, and a call is at its take only with the subject resolved and
\* the credential found among the subject's.
C27_LookupsBeforeTake ==
    [][/\ ( /\ done'.op \in AuthenticationOps
            /\ done'.result \in {"SubjectNotFound", "CredentialNotFound"} )
          => /\ redis' = redis
             /\ challenges' = challenges
             /\ taken' = taken
             /\ proc' = proc
       /\ \A p \in Procs :
            (proc'[p].op \in AuthenticationOps /\ proc[p].pc = "idle")
              => /\ proc'[p].pc = "getChallenge"
                 /\ redis' = redis
                 /\ challenges' = challenges
                 /\ taken' = taken
                 /\ \E u \in users, c \in credentials :
                      /\ IF proc'[p].op = "verifyAuthentication"
                         THEN u.id = proc'[p].subj ELSE u.email = proc'[p].subj
                      /\ c.userId = u.id
                      /\ c.credentialId = proc'[p].resp.id
                      /\ proc'[p].cred = c]_vars

C27_ChallengeSurvivesRejection ==
    /\ done.op \in AuthenticationOps
    /\ done.result = "CredentialNotFound"
    /\ Stored(KeyOfCall(done.op, done.subj)) # NoChallenge

\* C28: in the Redis version a stored challenge leaves its key only when its
\* time to live is used up, when a later begin stores a fresh challenge over
\* it, or when a completion that read this very challenge deletes it: a
\* completion that read an earlier challenge never deletes one stored after
\* its read.
C28_RemovedByItsReader ==
    [][\A k \in Keys :
         (version = "redis" /\ Stored(k) # NoChallenge /\ StoredAfter(k) # Stored(k))
           => \/ redis[k].ttl <= Quantum /\ redis' = expireKeys(Quantum)
              \/ StoredAfter(k) = minted + 1 /\ minted' = minted + 1
              \/ \E p \in Procs :
                   /\ proc[p].pc = "deleteChallenge"
                   /\ proc'[p].pc = "verify"
                   /\ KeyOf(p) = k
                   /\ proc[p].expected = Stored(k)]_vars

\* C29: in the in-memory version a take reads and deletes the entry in one
\* step: the challenge a completion is handed is the one stored under its key,
\* it is stored under no key afterwards, no other call in flight holds it and
\* no call was accepted with it; so of the completions that race for a key at
\* most one is handed a given challenge.
C29_TakeIsAtomic ==
    [][version = "memory" =>
         /\ \A p \in Procs :
              Delivers(p) =>
                /\ proc'[p].pc = "verify"
                /\ proc'[p].expected # NoChallenge
                /\ proc'[p].expected = Stored(KeyOf(p))
                /\ \A k \in Keys : StoredAfter(k) # proc'[p].expected
                /\ \A q \in Procs \ {p} : proc[q].expected # proc'[p].expected
                /\ accepted[proc'[p].expected] = 0
         /\ \A p \in Procs, q \in Procs :
              (q # p /\ proc'[p].expected # NoChallenge)
                => proc'[q].expected # proc'[p].expected
         /\ \A c \in 1..MaxChallenges : accepted'[c] <= 1]_vars

C29_OneOfTwoTook ==
    /\ version = "memory"
    /\ proc["p1"].pc = "verify"
    /\ proc["p1"].expected # NoChallenge
    /\ proc["p2"].pc = "getChallenge"
    /\ KeyOf("p2") = KeyOf("p1")
    /\ Stored(KeyOf("p1")) = NoChallenge

\* C30: the credential a successful authentication used was listed in the
\* allowCredentials of the options whose challenge the call consumed: a
\* credential registered after the options were issued does not complete
\* that ceremony.
C30_CredentialWasOffered ==
    [][(done'.op \in AuthenticationOps /\ done'.result = "ok")
         => done'.resp.id \in offered[done'.expected]]_vars

\* C31: when the interval of the in-memory version fires, an entry is deleted
\* only if its age is strictly greater than 300000 ms; an entry aged 300000 ms
\* or less is kept, with its challenge and its time of storage unchanged.
C31_SweepStrictlyOlder ==
    [][(version = "memory" /\ clock = cleanupInterval /\ clock' = 0)
         => \A k \in Keys :
              IF challenges[k] # NoEntry /\ clock - challenges[k].timestamp > 300000
              THEN challenges'[k] = NoEntry
              ELSE /\ challenges'[k].challenge = challenges[k].challenge
                   /\ challenges[k] # NoEntry
                        => clock' - challenges'[k].timestamp
                             = clock - challenges[k].timestamp]_vars

C31_KeptAtThreshold ==
    /\ version = "memory"
    /\ clock = 0
    /\ \E k \in Keys : /\ challenges[k].challenge # NoChallenge
                       /\ clock - challenges[k].timestamp = 300000

\* C32: over the same calls, made one at a time and none of them taking a
\* challenge stored for 5 minutes, the in-memory version and the Redis
\* version give each call the same outcome and hold the same challenges
\* under the same keys (the instant at which a time to live runs out apart).
C32_VersionsAgree ==
    [][/\ \A k \in Keys :
            TwinComplete(k)
              => /\ getChallenge(k) = NoChallenge <=> challenges[k] = NoEntry
                 /\ getChallenge(k) = challenges[k].challenge
       /\ \A k \in Keys :
            (challenges'[k] # NoEntry
               => clock' - challenges'[k].timestamp # expirationTime)
              => redis'[k].challenge = challenges'[k].challenge]_vars

\* C33: no two users share an email: register fails with 'User already
\* exists', the users unchanged, when a user has the email; a save adds at
\* most one row, of the email of its call; and of the register calls that
\* passed the check for one email at most one row is persisted.
C33_EmailUnique ==
    [][/\ \A p \in Procs, e \in AnyEmail \cup {"e3"} :
            (register(p, e) /\ \E u \in users : u.email = e)
              => /\ out'.result = "UserAlreadyExists"
                 /\ users' = users
       /\ users' # users
            => \E p \in Procs, u \in users' :
                 /\ At(p, "register", "save")
                 /\ proc'[p].pc = "idle"
                 /\ u \notin users
                 /\ users' = users \cup {u}
                 /\ u.email = proc[p].subj
       /\ \A u \in users', v \in users' : u.email = v.email => u = v]_vars

C33_SecondSaveFailed ==
    /\ out.op = "register"
    /\ out.result = "QueryFailed"
    /\ \E u \in users : u.id \in FreshUserIds

\* C34: whenever the Login page is at step "passkey", passkeyOptions are not
\* null and are those requested for the email the state holds.
C34_OptionsOfTheEmail ==
    (page.location = "/login" /\ page.step = "passkey")
      => /\ page.passkeyOptions # NoOptions
         /\ page.optionsEmail = page.email

\* C35: every verifyLogin request of the Login page carries a response over
\* a challenge generated after the last verifyLogin request the server
\* rejected, and never a challenge the server has consumed.
C35_RestartsFromBegin ==
    [][(page.passkey.status = "prompt" /\ page'.passkey.status = "sent")
         => /\ page'.passkey.response.challenge > page.rejectedAt
            /\ page'.passkey.response.challenge \notin taken]_vars

\* C36: localStorage is written and the page left only when a login or a
\* verifyLogin for the email in state has returned a user, whose id is the
\* one written; a cancelled prompt or a failed request leaves both as they
\* were; and the handler always ends with its flag reset.
C36_StoredAfterSuccess ==
    [][/\ (page'.userId # page.userId \/ page'.location # page.location)
            => \/ /\ page.login.status = "served" /\ page'.login = NoRequest
                  /\ page.login.result \in UserIds
                  /\ page.login.email = page.email
                  /\ page'.userId = page.login.result
                  /\ page'.location = "/dashboard"
               \/ /\ page.passkey.status = "served" /\ page'.passkey = NoRequest
                  /\ page.passkey.result \in UserIds
                  /\ page.passkey.email = page.email
                  /\ page'.userId = page.passkey.result
                  /\ page'.location = "/dashboard"
       /\ (page.login.status = "served" /\ page'.login = NoRequest)
            => ~page'.loading
       /\ (page.passkey.status \in {"prompt", "served"} /\ page'.passkey = NoRequest)
            => ~page'.authenticating]_vars

\* C37: the delays retryStrategy returns for the attempts 1, 2, 3, ... are
\* numbers, never more than 2000 ms, never decreasing, and below the cap they
\* grow exponentially: each is to the one before as that one is to its own
\* predecessor, and greater.
C37_ExponentialBackoff ==
    /\ \A i \in 1..Len(client.delays) :
         client.delays[i] \in 0..2000
    /\ \A i \in 1..(Len(client.delays) - 1) :
         client.delays[i] <= client.delays[i + 1]
    /\ \A i \in 2..(Len(client.delays) - 1) :
         client.delays[i + 1] < 2000
           => /\ client.delays[i + 1] > client.delays[i]
              /\ client.delays[i + 1] * client.delays[i - 1]
                   = client.delays[i] * client.delays[i]

====
